---------------------------- MODULE Spec2Model ----------------------------
(***************************************************************************)
(* Model of the receipt-points HTTP service in src/main.go.                *)
(*                                                                         *)
(* Two parts:                                                              *)
(*   - the rule engine calculatePoints, a pure function of a Receipt,      *)
(*     exercised by the specification CalcSpec over a bounded set of       *)
(*     receipts;                                                           *)
(*   - the two HTTP handlers handleProcessReceipt / handleGetPoints        *)
(*     running as concurrent goroutines over the mutex-guarded maps        *)
(*     receipts and points (Spec, and FairSpec for liveness).              *)
(*                                                                         *)
(* Go strings are modelled as sequences of one-character strings.  Only    *)
(* ASCII input is modelled, so len() (bytes) equals the sequence length.   *)
(***************************************************************************)
EXTENDS Integers, Sequences, FiniteSets, TLC

(***************************************************************************)
(* Characters                                                              *)
(***************************************************************************)
Digits == {"0", "1", "2", "3", "4", "5", "6", "7", "8", "9"}

Letters ==
  {"a","b","c","d","e","f","g","h","i","j","k","l","m",
   "n","o","p","q","r","s","t","u","v","w","x","y","z",
   "A","B","C","D","E","F","G","H","I","J","K","L","M",
   "N","O","P","Q","R","S","T","U","V","W","X","Y","Z"}

\* unicode.IsSpace restricted to ASCII, as used by strings.TrimSpace
SpaceChars == {" ", "\t", "\n", "\r"}

DigitVal(c) ==
  CASE c = "0" -> 0 [] c = "1" -> 1 [] c = "2" -> 2 [] c = "3" -> 3
    [] c = "4" -> 4 [] c = "5" -> 5 [] c = "6" -> 6 [] c = "7" -> 7
    [] c = "8" -> 8 [] c = "9" -> 9

IsDigits(s) == \A i \in 1..Len(s) : s[i] \in Digits

RECURSIVE Atoi(_)
\* value of a sequence of decimal digits ("" is 0)
Atoi(s) ==
  IF Len(s) = 0 THEN 0
  ELSE 10 * Atoi(SubSeq(s, 1, Len(s) - 1)) + DigitVal(s[Len(s)])

RECURSIVE Pow10(_)
Pow10(k) == IF k = 0 THEN 1 ELSE 10 * Pow10(k - 1)

\* strings.HasSuffix
HasSuffix(s, suffix) ==
  /\ Len(s) >= Len(suffix)
  /\ SubSeq(s, Len(s) - Len(suffix) + 1, Len(s)) = suffix

RECURSIVE TrimLeft(_)
TrimLeft(s) ==
  IF Len(s) > 0 /\ s[1] \in SpaceChars THEN TrimLeft(Tail(s)) ELSE s

RECURSIVE TrimRight(_)
TrimRight(s) ==
  IF Len(s) > 0 /\ s[Len(s)] \in SpaceChars
  THEN TrimRight(SubSeq(s, 1, Len(s) - 1)) ELSE s

\* strings.TrimSpace
TrimSpace(s) == TrimRight(TrimLeft(s))

\* len(re.FindAllString(s, -1)) for the pattern [a-zA-Z0-9]
CountAlnum(s) == Cardinality({i \in 1..Len(s) : s[i] \in Letters \cup Digits})

(***************************************************************************)
(* strconv.ParseFloat(s, 64) on plain decimal text: [sign] digits [.digits] *)
(* or [sign] .digits.  Any other text is a syntax error and the caller,    *)
(* which discards err, sees 0.  The value is kept exactly as the rational  *)
(* n / d with d a power of ten.                                            *)
(***************************************************************************)
FloatZero == [n |-> 0, d |-> 1]

DotPos(s) == {i \in 1..Len(s) : s[i] = "."}

ParseUnsigned(s) ==
  IF DotPos(s) = {} THEN
    IF Len(s) > 0 /\ IsDigits(s) THEN [ok |-> TRUE, n |-> Atoi(s), d |-> 1]
    ELSE [ok |-> FALSE, n |-> 0, d |-> 1]
  ELSE
    LET p    == CHOOSE i \in DotPos(s) : TRUE
        int  == SubSeq(s, 1, p - 1)
        frac == SubSeq(s, p + 1, Len(s))
    IN IF /\ Cardinality(DotPos(s)) = 1
          /\ IsDigits(int) /\ IsDigits(frac)
          /\ Len(int) + Len(frac) > 0
       THEN [ok |-> TRUE,
             n  |-> Atoi(int) * Pow10(Len(frac)) + Atoi(frac),
             d  |-> Pow10(Len(frac))]
       ELSE [ok |-> FALSE, n |-> 0, d |-> 1]

ParseFloat(s) ==
  LET neg  == Len(s) > 0 /\ s[1] = "-"
      body == IF Len(s) > 0 /\ s[1] \in {"-", "+"} THEN Tail(s) ELSE s
      u    == ParseUnsigned(body)
  IN IF u.ok THEN [n |-> IF neg THEN 0 - u.n ELSE u.n, d |-> u.d]
     ELSE FloatZero

\* ceiling of a / b for b > 0 (\div rounds towards minus infinity)
CeilDiv(a, b) == 0 - ((0 - a) \div b)

(***************************************************************************)
(* time.Parse.  On any error the caller, which discards err, sees the zero *)
(* time.Time: January 1, year 1, 00:00.                                    *)
(***************************************************************************)
ZeroDay == 1
ZeroHour == 0
ZeroMinute == 0

IsLeap(y) == y % 4 = 0 /\ (y % 100 # 0 \/ y % 400 = 0)

DaysIn(m, y) ==
  IF m = 2 THEN (IF IsLeap(y) THEN 29 ELSE 28)
  ELSE IF m \in {4, 6, 9, 11} THEN 30 ELSE 31

\* time.Parse("2006-01-02", s).Day()
ParseDateDay(s) ==
  IF /\ Len(s) = 10
     /\ IsDigits(SubSeq(s, 1, 4)) /\ s[5] = "-"
     /\ IsDigits(SubSeq(s, 6, 7)) /\ s[8] = "-"
     /\ IsDigits(SubSeq(s, 9, 10))
  THEN LET y == Atoi(SubSeq(s, 1, 4))
           m == Atoi(SubSeq(s, 6, 7))
           d == Atoi(SubSeq(s, 9, 10))
       IN IF m \in 1..12 /\ d >= 1 /\ d <= DaysIn(m, y) THEN d ELSE ZeroDay
  ELSE ZeroDay

\* time.Parse("15:04", s): the hour takes one or two digits, the minute
\* exactly two; hour 0..23, minute 0..59; nothing may follow.
ParseClock(s) ==
  LET zero == [hour |-> ZeroHour, minute |-> ZeroMinute]
      hlen == IF Len(s) >= 2 /\ s[1] \in Digits /\ s[2] \in Digits THEN 2
              ELSE IF Len(s) >= 1 /\ s[1] \in Digits THEN 1 ELSE 0
  IN IF /\ hlen > 0
        /\ Len(s) = hlen + 3
        /\ s[hlen + 1] = ":"
        /\ IsDigits(SubSeq(s, hlen + 2, hlen + 3))
     THEN LET h == Atoi(SubSeq(s, 1, hlen))
              m == Atoi(SubSeq(s, hlen + 2, hlen + 3))
          IN IF h <= 23 /\ m <= 59 THEN [hour |-> h, minute |-> m] ELSE zero
     ELSE zero


(***************************************************************************)
(* calculatePoints: the eight rules (rule 6 is commented out in the code)  *)
(***************************************************************************)
\* Rule 1: one point per alphanumeric character of the retailer name
Rule1Points(receipt) == CountAlnum(receipt.retailer)

\* Rule 2: 50 points if the total text ends in ".00"
Rule2Points(receipt) ==
  IF HasSuffix(receipt.total, <<".", "0", "0">>) THEN 50 ELSE 0

\* Rule 3: 25 points if math.Mod(total, 0.25) == 0.  Multiples of 0.25 are
\* exact in float64 and no other decimal of this size rounds to one, so the
\* test is exact divisibility of total = n/d by 1/4.
Rule3Points(receipt) ==
  LET total == ParseFloat(receipt.total)
  IN IF (4 * total.n) % total.d = 0 THEN 25 ELSE 0

\* Rule 4: 5 points for every two items
Rule4Points(receipt) == (Len(receipt.items) \div 2) * 5

\* Rule 5, one iteration of the loop: the points the item adds.
\* int(math.Ceil(price * 0.2)): when price/5 is an integer k the float64
\* product k*(1 + 2^-54) rounds to k, otherwise it is at least 1/(5d) away
\* from an integer, so the result is the exact ceiling of n / (5d).
Rule5ItemPoints(item) ==
  LET descriptionLength == Len(TrimSpace(item.shortDescription))
  IN IF descriptionLength % 3 = 0
     THEN LET price == ParseFloat(item.price)
          IN CeilDiv(price.n, 5 * price.d)
     ELSE 0

RECURSIVE Rule5Points(_)
Rule5Points(items) ==
  IF Len(items) = 0 THEN 0
  ELSE Rule5ItemPoints(Head(items)) + Rule5Points(Tail(items))

\* Rule 7: 6 points if the day of the purchase date is odd
Rule7Points(receipt) ==
  IF ParseDateDay(receipt.purchaseDate) % 2 # 0 THEN 6 ELSE 0

\* Rule 8 with the upper end included: 16:00 scores too
Rule8Points_Inclusive(receipt) ==
  LET purchaseTime == ParseClock(receipt.purchaseTime)
  IN IF \/ purchaseTime.hour = 14
        \/ purchaseTime.hour = 15
        \/ (purchaseTime.hour = 16 /\ purchaseTime.minute = 0)
     THEN 10 ELSE 0

\* Rule 8: 10 points if the purchase time is after 2:00pm and before 4:00pm
Rule8Points(receipt) ==
  LET purchaseTime == ParseClock(receipt.purchaseTime)
  IN IF \/ purchaseTime.hour = 14
        \/ (purchaseTime.hour = 15 /\ purchaseTime.minute < 60)
     THEN 10 ELSE 0

calculatePoints(receipt) ==
  Rule1Points(receipt) + Rule2Points(receipt) + Rule3Points(receipt)
    + Rule4Points(receipt) + Rule5Points(receipt.items)
    + Rule7Points(receipt) + Rule8Points(receipt)

(***************************************************************************)
(* Bounded inputs                                                          *)
(***************************************************************************)
MaxItems == 2

DigitChar(n) ==
  CASE n = 0 -> "0" [] n = 1 -> "1" [] n = 2 -> "2" [] n = 3 -> "3"
    [] n = 4 -> "4" [] n = 5 -> "5" [] n = 6 -> "6" [] n = 7 -> "7"
    [] n = 8 -> "8" [] n = 9 -> "9"

\* the text HH:MM of hour h and minute m
FormatClock(h, m) ==
  <<DigitChar(h \div 10), DigitChar(h % 10), ":",
    DigitChar(m \div 10), DigitChar(m % 10)>>

TestMinutes == {0, 33, 59}

TestTimes ==
  {FormatClock(h, m) : h \in 0..23, m \in TestMinutes}
    \cup { <<"2", "5", ":", "0", "0">>,          \* hour out of range
           <<"1", "5", ":", "6", "0">>,          \* minute out of range
           <<"2", "p", "m">> }                   \* not a time

TestRetailers ==
  { <<>>, <<"M", "&", "M", " ", "7">> }

TestTotals ==
  { <<"3", "5", ".", "0", "0">>,
    <<"6", ".", "4", "9">>,
    <<"a", "b", "c">> }

TestDates ==
  { <<"2","0","2","2","-","0","1","-","0","1">>,
    <<"2","0","2","2","-","0","1","-","0","2">>,
    <<"2","0","2","2","-","0","2","-","3","0">> }   \* no such day

TestDescriptions ==
  { <<>>,
    <<" ", "A", "B", "C", " ">>,
    <<"E", "m", "i", "l", "s">> }

TestPrices ==
  { <<"1", "2", ".", "2", "5">>,
    <<"-", "1", "0", ".", "0", "0">>,
    <<"f", "r", "e", "e">> }

TestItems ==
  [shortDescription : TestDescriptions, price : TestPrices]

RECURSIVE SeqsUpTo(_, _)
\* all sequences over S of length at most k
SeqsUpTo(S, k) ==
  IF k = 0 THEN { <<>> }
  ELSE LET shorter == SeqsUpTo(S, k - 1)
       IN shorter \cup {Append(q, x) : q \in {t \in shorter : Len(t) = k - 1}, x \in S}

TestReceipts ==
  [retailer     : TestRetailers,
   purchaseDate : TestDates,
   purchaseTime : TestTimes,
   items        : SeqsUpTo(TestItems, MaxItems),
   total        : TestTotals]

(***************************************************************************)
(* The server: requests, ids, bodies                                       *)
(***************************************************************************)
NumProcs == 2                 \* requests handled concurrently
MaxIds == 2                   \* ids uuid.New() can hand out

Procs == 1..NumProcs
Ids == 1..MaxIds

\* the zero value of Receipt: what the body {} decodes to
ZeroReceipt ==
  [retailer |-> <<>>, purchaseDate |-> <<>>, purchaseTime |-> <<>>,
   items |-> <<>>, total |-> <<>>]

SampleReceipt ==
  [retailer     |-> <<"M", "&", "M", " ", "7">>,
   purchaseDate |-> <<"2","0","2","2","-","0","1","-","0","2">>,
   purchaseTime |-> <<"1", "4", ":", "3", "3">>,
   items        |-> << [shortDescription |-> <<" ", "A", "B", "C", " ">>,
                        price |-> <<"1", "2", ".", "2", "5">>],
                       [shortDescription |-> <<"E", "m", "i", "l", "s">>,
                        price |-> <<"1", "2", ".", "2", "5">>] >>,
   total        |-> <<"3", "5", ".", "0", "0">>]

ServerReceipts == {ZeroReceipt, SampleReceipt}

\* a request body: the JSON text of a receipt, or text that is not JSON
MalformedBody == [json |-> FALSE, text |-> ZeroReceipt]

Bodies == [json : {TRUE}, text : ServerReceipts] \cup {MalformedBody}

\* json.NewDecoder(r.Body).Decode(&receipt)
Decode(body) ==
  IF body.json THEN [err |-> FALSE, receipt |-> body.text]
  ELSE [err |-> TRUE, receipt |-> ZeroReceipt]

Methods == {"GET", "POST"}

\* an id generator that may repeat an id
NewUUID_Reuse(gen) == Ids

\* uuid.New(): the ids it may return, given the ids it has returned so far.
\* A version 4 UUID has 122 random bits; a repeat is taken not to happen.
NewUUID(gen) == Ids \ gen

NoResponse == [kind |-> "none", status |-> 0]

(***************************************************************************)
(* State                                                                   *)
(***************************************************************************)
VARIABLES
  calcReceipt,       \* the receipt handed to calculatePoints
  calcDone,          \* calculatePoints has returned
  rule5Points,       \* its local rule5Points (main.go:152)
  rule8Points,       \* its local rule8Points (main.go:176)
  calcPoints,        \* its return value (main.go:182)
  receipts,          \* map[string]Receipt (main.go:40)
  points,            \* map[string]int (main.go:41)
  mutex,             \* sync.Mutex (main.go:42): TRUE when locked
  generated,         \* the ids uuid.New() has returned
  stdout,            \* number of "Total points" lines printed (main.go:181)
  pc,                \* per request goroutine: the statement it is at
  id,                \* per request: local id
  receipt,           \* per request: local receipt
  calculatedPoints,  \* per request: local calculatedPoints
  exists,            \* per request: local exists
  after,             \* per fetch: its id had been returned to a client when it started
  response,          \* the response the last step wrote, if it wrote one
  issued             \* per id: number of 200 responses of submit carrying it

calcVars == <<calcReceipt, calcDone, rule5Points, rule8Points, calcPoints>>

storeVars == <<receipts, points>>

localVars == <<id, receipt, calculatedPoints, exists, after>>

serverVars ==
  <<receipts, points, mutex, generated, stdout, pc, id, receipt,
    calculatedPoints, exists, after, response, issued>>

vars == <<calcVars, serverVars>>

ServerInit ==
  /\ receipts = << >>
  /\ points = << >>
  /\ mutex = FALSE
  /\ generated = {}
  /\ stdout = 0
  /\ pc = [p \in Procs |-> "idle"]
  /\ id = [p \in Procs |-> 0]
  /\ receipt = [p \in Procs |-> ZeroReceipt]
  /\ calculatedPoints = [p \in Procs |-> 0]
  /\ exists = [p \in Procs |-> FALSE]
  /\ after = [p \in Procs |-> FALSE]
  /\ response = NoResponse
  /\ issued = [i \in Ids |-> 0]

CalcIdle ==
  /\ calcReceipt = ZeroReceipt
  /\ calcDone = TRUE
  /\ rule5Points = 0
  /\ rule8Points = 0
  /\ calcPoints = 0

Init == CalcIdle /\ ServerInit

\* m[k] = v
MapSet(m, k, v) == [x \in DOMAIN m \cup {k} |-> IF x = k THEN v ELSE m[x]]

ClearLocals(p) ==
  /\ id' = [id EXCEPT ![p] = 0]
  /\ receipt' = [receipt EXCEPT ![p] = ZeroReceipt]
  /\ calculatedPoints' = [calculatedPoints EXCEPT ![p] = 0]
  /\ exists' = [exists EXCEPT ![p] = FALSE]
  /\ after' = [after EXCEPT ![p] = FALSE]

(***************************************************************************)
(* handleProcessReceipt                                                    *)
(***************************************************************************)
\* lines 59-62: wrong method
ProcessReceiptMethodNotAllowed(p) ==
  /\ pc[p] = "idle"
  /\ \E method \in Methods \ {"POST"} :
       response' = [kind |-> "submit", status |-> 405]
  /\ UNCHANGED <<calcVars, receipts, points, mutex, generated, stdout, pc,
                 localVars, issued>>

\* the id is generated and the points calculated before the decode error is
\* looked at
ProcessReceiptBadRequest_Late(p) ==
  /\ pc[p] = "idle"
  /\ Cardinality(generated) < MaxIds
  /\ \E body \in Bodies, newId \in NewUUID(generated) :
       /\ Decode(body).err
       /\ generated' = generated \cup {newId}
       /\ response' = [kind |-> "submit", status |-> 400]
  /\ stdout' = stdout + 1
  /\ UNCHANGED <<calcVars, receipts, points, mutex, pc, localVars, issued>>

\* lines 64-68: the body does not decode
ProcessReceiptBadRequest(p) ==
  /\ pc[p] = "idle"
  /\ \E body \in Bodies :
       /\ Decode(body).err
       /\ response' = [kind |-> "submit", status |-> 400]
  /\ UNCHANGED <<calcVars, receipts, points, mutex, generated, stdout, pc,
                 localVars, issued>>

\* lines 64-73: decode, generate the id, calculate the points
ProcessReceiptAccept(p) ==
  /\ pc[p] = "idle"
  /\ Cardinality(generated) < MaxIds
  /\ \E body \in Bodies, newId \in NewUUID(generated) :
       /\ ~Decode(body).err
       /\ receipt' = [receipt EXCEPT ![p] = Decode(body).receipt]
       /\ id' = [id EXCEPT ![p] = newId]
       /\ generated' = generated \cup {newId}
       /\ calculatedPoints' =
            [calculatedPoints EXCEPT ![p] = calculatePoints(Decode(body).receipt)]
  /\ stdout' = stdout + 1
  /\ pc' = [pc EXCEPT ![p] = "pr_lock"]
  /\ response' = NoResponse
  /\ UNCHANGED <<calcVars, receipts, points, mutex, exists, after, issued>>

\* a Lock() that does not wait for the mutex to be free
ProcessReceiptLock_NoWait(p) ==
  /\ pc[p] = "pr_lock"
  /\ mutex' = TRUE
  /\ pc' = [pc EXCEPT ![p] = "pr_receipts"]
  /\ response' = NoResponse
  /\ UNCHANGED <<calcVars, receipts, points, generated, stdout, localVars, issued>>

\* line 76: mutex.Lock()
ProcessReceiptLock(p) ==
  /\ pc[p] = "pr_lock"
  /\ ~mutex
  /\ mutex' = TRUE
  /\ pc' = [pc EXCEPT ![p] = "pr_receipts"]
  /\ response' = NoResponse
  /\ UNCHANGED <<calcVars, receipts, points, generated, stdout, localVars, issued>>

\* line 77: receipts[id] = receipt
ProcessReceiptStoreReceipt(p) ==
  /\ pc[p] = "pr_receipts"
  /\ receipts' = MapSet(receipts, id[p], receipt[p])
  /\ pc' = [pc EXCEPT ![p] = "pr_points"]
  /\ response' = NoResponse
  /\ UNCHANGED <<calcVars, points, mutex, generated, stdout, localVars, issued>>

\* the points map is replaced by a map holding only the new entry
ProcessReceiptStorePoints_Rebuild(p) ==
  /\ pc[p] = "pr_points"
  /\ points' = [x \in {id[p]} |-> calculatedPoints[p]]
  /\ pc' = [pc EXCEPT ![p] = "pr_unlock"]
  /\ response' = NoResponse
  /\ UNCHANGED <<calcVars, receipts, mutex, generated, stdout, localVars, issued>>

\* the write to the points map is left out
ProcessReceiptStorePoints_Omitted(p) ==
  /\ pc[p] = "pr_points"
  /\ pc' = [pc EXCEPT ![p] = "pr_unlock"]
  /\ response' = NoResponse
  /\ UNCHANGED <<calcVars, receipts, points, mutex, generated, stdout,
                 localVars, issued>>

\* the zero value is stored instead of the calculated points
ProcessReceiptStorePoints_Zero(p) ==
  /\ pc[p] = "pr_points"
  /\ points' = MapSet(points, id[p], 0)
  /\ pc' = [pc EXCEPT ![p] = "pr_unlock"]
  /\ response' = NoResponse
  /\ UNCHANGED <<calcVars, receipts, mutex, generated, stdout, localVars, issued>>

\* line 78: points[id] = calculatedPoints
ProcessReceiptStorePoints(p) ==
  /\ pc[p] = "pr_points"
  /\ points' = MapSet(points, id[p], calculatedPoints[p])
  /\ pc' = [pc EXCEPT ![p] = "pr_unlock"]
  /\ response' = NoResponse
  /\ UNCHANGED <<calcVars, receipts, mutex, generated, stdout, localVars, issued>>

\* line 79: mutex.Unlock()
ProcessReceiptUnlock(p) ==
  /\ pc[p] = "pr_unlock"
  /\ mutex' = FALSE
  /\ pc' = [pc EXCEPT ![p] = "pr_respond"]
  /\ response' = NoResponse
  /\ UNCHANGED <<calcVars, receipts, points, generated, stdout, localVars, issued>>

\* lines 82-83: respond with the id
ProcessReceiptRespond(p) ==
  /\ pc[p] = "pr_respond"
  /\ response' = [kind |-> "submit", status |-> 200, id |-> id[p]]
  /\ issued' = [issued EXCEPT ![id[p]] = @ + 1]
  /\ pc' = [pc EXCEPT ![p] = "idle"]
  /\ ClearLocals(p)
  /\ UNCHANGED <<calcVars, receipts, points, mutex, generated, stdout>>

(***************************************************************************)
(* handleGetPoints                                                         *)
(***************************************************************************)
\* lines 87-90: wrong method
GetPointsMethodNotAllowed(p) ==
  /\ pc[p] = "idle"
  /\ \E method \in Methods \ {"GET"} :
       response' = [kind |-> "fetch", status |-> 405]
  /\ UNCHANGED <<calcVars, receipts, points, mutex, generated, stdout, pc,
                 localVars, issued>>

\* lines 93-94: take the id from the URL
GetPointsAccept(p) ==
  /\ pc[p] = "idle"
  /\ \E reqId \in Ids :
       /\ id' = [id EXCEPT ![p] = reqId]
       /\ after' = [after EXCEPT ![p] = issued[reqId] > 0]
  /\ pc' = [pc EXCEPT ![p] = "gp_lock"]
  /\ response' = NoResponse
  /\ UNCHANGED <<calcVars, receipts, points, mutex, generated, stdout,
                 receipt, calculatedPoints, exists, issued>>

\* line 97: mutex.Lock()
GetPointsLock(p) ==
  /\ pc[p] = "gp_lock"
  /\ ~mutex
  /\ mutex' = TRUE
  /\ pc' = [pc EXCEPT ![p] = "gp_lookup"]
  /\ response' = NoResponse
  /\ UNCHANGED <<calcVars, receipts, points, generated, stdout, localVars, issued>>

\* line 98: calculatedPoints, exists := points[id]
GetPointsLookup(p) ==
  /\ pc[p] = "gp_lookup"
  /\ exists' = [exists EXCEPT ![p] = id[p] \in DOMAIN points]
  /\ calculatedPoints' =
       [calculatedPoints EXCEPT ![p] =
          IF id[p] \in DOMAIN points THEN points[id[p]] ELSE 0]
  /\ pc' = [pc EXCEPT ![p] = "gp_unlock"]
  /\ response' = NoResponse
  /\ UNCHANGED <<calcVars, receipts, points, mutex, generated, stdout, id,
                 receipt, after, issued>>

\* line 99: mutex.Unlock()
GetPointsUnlock(p) ==
  /\ pc[p] = "gp_unlock"
  /\ mutex' = FALSE
  /\ pc' = [pc EXCEPT ![p] = "gp_respond"]
  /\ response' = NoResponse
  /\ UNCHANGED <<calcVars, receipts, points, generated, stdout, localVars, issued>>

\* the exists flag is not looked at: every fetch answers 200
GetPointsRespond_NoCheck(p) ==
  /\ pc[p] = "gp_respond"
  /\ response' =
       [kind |-> "fetch", status |-> 200, id |-> id[p], after |-> after[p],
        points |-> calculatedPoints[p]]
  /\ pc' = [pc EXCEPT ![p] = "idle"]
  /\ ClearLocals(p)
  /\ UNCHANGED <<calcVars, receipts, points, mutex, generated, stdout, issued>>

\* lines 101-108: not found, or the points
GetPointsRespond(p) ==
  /\ pc[p] = "gp_respond"
  /\ response' =
       IF ~exists[p]
       THEN [kind |-> "fetch", status |-> 404, id |-> id[p], after |-> after[p]]
       ELSE [kind |-> "fetch", status |-> 200, id |-> id[p], after |-> after[p],
             points |-> calculatedPoints[p]]
  /\ pc' = [pc EXCEPT ![p] = "idle"]
  /\ ClearLocals(p)
  /\ UNCHANGED <<calcVars, receipts, points, mutex, generated, stdout, issued>>

Next ==
  \E p \in Procs :
    \/ ProcessReceiptMethodNotAllowed(p)
    \/ ProcessReceiptBadRequest(p)
    \/ ProcessReceiptAccept(p)
    \/ ProcessReceiptLock(p)
    \/ ProcessReceiptStoreReceipt(p)
    \/ ProcessReceiptStorePoints(p)
    \/ ProcessReceiptUnlock(p)
    \/ ProcessReceiptRespond(p)
    \/ GetPointsMethodNotAllowed(p)
    \/ GetPointsAccept(p)
    \/ GetPointsLock(p)
    \/ GetPointsLookup(p)
    \/ GetPointsUnlock(p)
    \/ GetPointsRespond(p)

Spec == Init /\ [][Next]_vars

(***************************************************************************)
(* The rule engine on its own                                              *)
(***************************************************************************)
CalcInit ==
  /\ calcReceipt \in TestReceipts
  /\ calcDone = FALSE
  /\ rule5Points = 0
  /\ rule8Points = 0
  /\ calcPoints = 0
  /\ ServerInit

\* one call of calculatePoints(calcReceipt)
Calculate ==
  /\ ~calcDone
  /\ calcDone' = TRUE
  /\ rule5Points' = Rule5Points(calcReceipt.items)
  /\ rule8Points' = Rule8Points(calcReceipt)
  /\ calcPoints' = calculatePoints(calcReceipt)
  /\ UNCHANGED <<calcReceipt, serverVars>>

CalcNext == Calculate

CalcSpec == CalcInit /\ [][CalcNext]_vars

(***************************************************************************)
(* Fair scheduling.  A goroutine that has been accepted keeps being        *)
(* scheduled, and sync.Mutex in starvation mode hands the lock to the      *)
(* longest waiter, so a goroutine blocked in Lock() is not passed over     *)
(* forever: strong fairness of each request's own steps.  Nothing obliges  *)
(* a client to send a request, so the accepting steps are not fair.        *)
(***************************************************************************)
Progress(p) ==
  \/ ProcessReceiptLock(p)
  \/ ProcessReceiptStoreReceipt(p)
  \/ ProcessReceiptStorePoints(p)
  \/ ProcessReceiptUnlock(p)
  \/ ProcessReceiptRespond(p)
  \/ GetPointsLock(p)
  \/ GetPointsLookup(p)
  \/ GetPointsUnlock(p)
  \/ GetPointsRespond(p)

FairSpec ==
  /\ Init /\ [][Next]_vars
  /\ \A p \in Procs : SF_vars(Progress(p))

(***************************************************************************)
(* Properties                                                              *)
(***************************************************************************)
IsFetchAnswer(r) == r.kind = "fetch" /\ r.status \in {200, 404}

IsSubmitOk(r) == r.kind = "submit" /\ r.status = 200

\* the statements between mutex.Lock() and mutex.Unlock()
CriticalSection == {"pr_receipts", "pr_points", "pr_unlock", "gp_lookup", "gp_unlock"}

WaitingForLock == {"pr_lock", "gp_lock"}

\* the statements of handleProcessReceipt that hold a generated id
Submitting == {"pr_lock", "pr_receipts", "pr_points", "pr_unlock", "pr_respond"}

Fetching == {"gp_lock", "gp_lookup", "gp_unlock", "gp_respond"}

\* C1: once an id has been written to the store its score never changes and
\* the id is never removed, and every successful fetch of an id returned the
\* points value stored under it.
C1_ScoreNeverChanges ==
  /\ [][\A i \in DOMAIN points :
          i \in DOMAIN points' /\ points'[i] = points[i]]_vars
  /\ []((response.kind = "fetch" /\ response.status = 200)
          => /\ response.id \in DOMAIN points
             /\ response.points = points[response.id])

\* a fetch has returned the score of an id while a second id was stored too
C1_Witness ==
  /\ response.kind = "fetch" /\ response.status = 200
  /\ DOMAIN points = Ids
  /\ \E i \in Ids : points[i] # points[response.id]

\* C2: read-your-writes: a fetch of id X that started after the submit that
\* generated X had returned its response finds X and returns X's score.
C2_ReadYourWrites ==
  /\ \A p \in Procs : (pc[p] = "gp_respond" /\ after[p]) => exists[p]
  /\ (IsFetchAnswer(response) /\ response.after)
       => /\ response.status = 200
          /\ response.id \in DOMAIN points
          /\ response.points = points[response.id]

\* a fetch that started after its id was handed out has been answered
C2_Witness ==
  /\ IsFetchAnswer(response)
  /\ response.after
  /\ issued[response.id] = 1

\* C3: calculatePoints returns a non-negative integer for every receipt.
C3_NonNegative == calcDone => calcPoints >= 0

\* C4: a submit stores under an id that is not yet a key of the store, two
\* submits never hold or return the same id, and every id returned is
\* retrievable.
C4_FreshIds ==
  /\ \A p \in Procs :
       /\ pc[p] \in {"pr_lock", "pr_receipts"}
            => id[p] \notin DOMAIN receipts \cup DOMAIN points
       /\ pc[p] = "pr_points" => id[p] \notin DOMAIN points
  /\ \A p, q \in Procs :
       (p # q /\ pc[p] \in Submitting /\ pc[q] \in Submitting) => id[p] # id[q]
  /\ \A i \in Ids :
       /\ issued[i] <= 1
       /\ issued[i] > 0 => i \in DOMAIN receipts /\ i \in DOMAIN points

\* the identical receipt was submitted twice and both ids were returned
C4_Witness ==
  /\ \A i \in Ids : issued[i] = 1
  /\ \A i, j \in Ids : receipts[i] = receipts[j]

\* C5: a fetch of an id that was never written to the store answers 404, and
\* no step of a fetch changes the receipts map or the points map.
C5_FetchUnknown ==
  /\ []((IsFetchAnswer(response) /\ response.id \notin DOMAIN points)
          => response.status = 404)
  /\ [][\A p \in Procs :
          (pc[p] \in Fetching \/ pc'[p] \in Fetching) /\ pc'[p] # pc[p]
            => receipts' = receipts /\ points' = points]_vars

\* a fetch of an id that is in neither map has been answered
C5_Witness ==
  /\ IsFetchAnswer(response)
  /\ response.status = 404
  /\ response.id \notin DOMAIN points \cup DOMAIN receipts

\* C6: a step that answers a submit with 400 invokes no calculatePoints,
\* generates no id and leaves both maps unchanged; an id is generated and
\* calculatePoints runs only in a step that accepts a decoded body.
C6_BadRequestNoEffect ==
  /\ [][(response' # response /\ response'.kind = "submit"
           /\ response'.status = 400)
          => /\ generated' = generated
             /\ stdout' = stdout
             /\ receipts' = receipts
             /\ points' = points
             /\ pc' = pc]_vars
  /\ [][(generated' # generated \/ stdout' # stdout)
          => \E p \in Procs : pc[p] = "idle" /\ pc'[p] = "pr_lock"]_vars

\* a submit was answered 400 after another submit had been stored
C6_Witness ==
  /\ response.kind = "submit" /\ response.status = 400
  /\ DOMAIN points # {}
  /\ stdout = Cardinality(DOMAIN points)

\* rule 5 as the claim C7 states it: an empty trimmed description adds 0
ClaimedRule5ItemPoints(item) ==
  LET n     == Len(TrimSpace(item.shortDescription))
      price == ParseFloat(item.price)
  IN IF n % 3 = 0 /\ n > 0 THEN CeilDiv(price.n, 5 * price.d) ELSE 0

RECURSIVE ClaimedRule5Points(_)
ClaimedRule5Points(items) ==
  IF Len(items) = 0 THEN 0
  ELSE ClaimedRule5ItemPoints(Head(items)) + ClaimedRule5Points(Tail(items))

\* C7: under rule 5 an item adds ceil(price * 0.2) exactly when its trimmed
\* description length is a multiple of 3 and greater than 0, and 0 otherwise.
C7_Rule5 == calcDone => rule5Points = ClaimedRule5Points(calcReceipt.items)

\* a well-formed HH:MM text, read without the parser
WellFormedClock(s) ==
  /\ Len(s) = 5
  /\ s[1] \in Digits /\ s[2] \in Digits /\ s[3] = ":"
  /\ s[4] \in Digits /\ s[5] \in Digits
  /\ 10 * DigitVal(s[1]) + DigitVal(s[2]) <= 23
  /\ 10 * DigitVal(s[4]) + DigitVal(s[5]) <= 59

MinuteOfDay(s) ==
  60 * (10 * DigitVal(s[1]) + DigitVal(s[2])) + 10 * DigitVal(s[4]) + DigitVal(s[5])

\* C8: for a well-formed purchase time rule 8 adds 10 points exactly when
\* the time lies in [14:00, 16:00), and 0 otherwise.
C8_Rule8 ==
  (calcDone /\ WellFormedClock(calcReceipt.purchaseTime))
    => rule8Points =
         IF /\ MinuteOfDay(calcReceipt.purchaseTime) >= 14 * 60
            /\ MinuteOfDay(calcReceipt.purchaseTime) < 16 * 60
         THEN 10 ELSE 0

\* rule 8 has scored 15:59
C8_Witness ==
  /\ calcDone
  /\ calcReceipt.purchaseTime = <<"1", "5", ":", "5", "9">>
  /\ rule8Points = 10

\* C9: at most one request is between mutex.Lock() and mutex.Unlock(), the
\* maps change only inside that section, and under fair scheduling a request
\* waiting for the lock gets it and a request holding it releases it.
C9_MutualExclusion ==
  /\ [](/\ Cardinality({p \in Procs : pc[p] \in CriticalSection}) <= 1
        /\ mutex = (\E p \in Procs : pc[p] \in CriticalSection))
  /\ [][(receipts' # receipts \/ points' # points)
          => /\ mutex
             /\ \E p \in Procs : pc[p] \in CriticalSection /\ pc'[p] # pc[p]]_vars
  /\ \A p \in Procs :
       /\ (pc[p] \in WaitingForLock) ~> (pc[p] \in CriticalSection)
       /\ (pc[p] \in CriticalSection) ~> (pc[p] \notin CriticalSection)

\* one request is inside the critical section while another waits for the lock
C9_Witness ==
  \E p, q \in Procs :
    /\ pc[p] \in {"pr_points", "gp_lookup"}
    /\ pc[q] \in WaitingForLock

\* C10: whenever no request holds the mutex the two maps have the same ids
\* and points[id] = calculatePoints(receipts[id]); a successful fetch
\* returned the score of the receipt submitted under its id.
C10_StoreConsistent ==
  /\ ~mutex =>
       /\ DOMAIN receipts = DOMAIN points
       /\ \A i \in DOMAIN points : points[i] = calculatePoints(receipts[i])
  /\ (response.kind = "fetch" /\ response.status = 200)
       => /\ response.id \in DOMAIN receipts
          /\ response.points = calculatePoints(receipts[response.id])

\* the mutex is free, both maps are full and hold receipts of different scores
C10_Witness ==
  /\ ~mutex
  /\ DOMAIN points = Ids
  /\ \E i, j \in Ids : points[i] # points[j]
  /\ response.kind = "fetch" /\ response.status = 200

=============================================================================
